---- MODULE Spec2Model ----
(***************************************************************************)
(* School Results Dashboard (src/streamlit_app.py).                        *)
(*                                                                         *)
(* The script is re-run from top to bottom on every widget interaction.    *)
(* The state is the widget state (view radio, chart radio, file uploader)  *)
(* and what the last run produced: the table df, the sidebar message, the  *)
(* metrics and figures handed to the page, and the exception that ended    *)
(* the run, if any.                                                        *)
(*                                                                         *)
(* Numbers shown on the page are kept as the values handed to the          *)
(* formatter (f"{x:,}", f"{x:.1f}%"); a pass rate is kept as the exact     *)
(* quotient 100*num/den, or as nan when numpy divides 0 by 0.              *)
(***************************************************************************)
EXTENDS Integers, Sequences, FiniteSets, TLC

VARIABLES
    uploaded_file,  \* st.sidebar.file_uploader: the attached CSV file, or NoFile
    view_option,    \* st.sidebar.radio "Select View:"
    chart_type,     \* st.radio "Select Chart Type:" of the two class views
    df,             \* the table the run built, NoTable when loading raised
    load_exc,       \* the exception the load step raised, "none" if none
    sidebar,        \* "success", "info", or "none" when the run ended before
    metrics,        \* the st.metric calls of the run, in order
    charts,         \* the st.plotly_chart calls of the run, in order
    view_exc        \* the exception that ended the view section, "none" if none

vars == <<uploaded_file, view_option, chart_type, df, load_exc, sidebar,
          metrics, charts, view_exc>>

\* Largest number of data rows of an uploaded CSV file with all four columns.
MaxRows == 2

\* Largest number of data rows of an uploaded CSV file that lacks a column.
MaxBrokenRows == 1

---------------------------------------------------------------------------
(* Constants of the script *)

GRADE_ORDER == <<"A*", "A", "B", "C", "D", "E", "U">>

\* The four columns the script reads.
Columns == {"Division", "Class", "Grade", "Count"}

\* Class labels in lexical order, the order sorted() gives them.
ClassOrder == <<"Class 1", "Class 2", "Class 3", "Class 4", "Class 5", "Class 6">>

---------------------------------------------------------------------------
(* Inputs: the CSV files a user can upload *)

\* Rows that meet the input contract: both divisions, two classes, a passing
\* and the failing grade, two counts.
ValidRows ==
    [Division : {"Primary", "Secondary"}, Class : {"Class 1", "Class 2"},
     Grade : {"A", "U"}, Count : {1, 2}]

\* Rows at the edges of the contract: a grade outside the enumeration, a
\* division that is neither Primary nor Secondary, a count of 0.
EdgeRows ==
    {[Division |-> "Primary", Class |-> "Class 1", Grade |-> "F", Count |-> 1],
     [Division |-> "Tertiary", Class |-> "Class 1", Grade |-> "A", Count |-> 1],
     [Division |-> "Primary", Class |-> "Class 1", Grade |-> "A", Count |-> 0]}

FullRows == ValidRows \cup EdgeRows

\* A header with every column, or with one of them missing.
Headers == {Columns} \cup {Columns \ {c} : c \in Columns}

\* The data rows a file with header h can hold.
RowsFor(h) == {[c \in h |-> full[c]] : full \in FullRows}

\* The most data rows a file with header h holds.
RowLimit(h) == IF h = Columns THEN MaxRows ELSE MaxBrokenRows

NoFile == [present |-> FALSE, columns |-> {}, rows |-> <<>>]

NoTable == [columns |-> {}, rows |-> <<>>]

---------------------------------------------------------------------------
(* Helpers *)

\* Python's list * n.
ListRepeat(s, n) == [i \in 1..(n * Len(s)) |-> s[((i - 1) % Len(s)) + 1]]

\* Series.sum() of the Count column of rows S.
RECURSIVE SumCount(_)
SumCount(S) == IF S = <<>> THEN 0 ELSE Head(S).Count + SumCount(Tail(S))

---------------------------------------------------------------------------
(* Loader *)

SampleCount ==
    <<5, 8, 12, 10, 8, 5, 2, 4, 6, 10, 8, 6, 4, 3, 6, 9, 11, 9, 7, 4,
      3, 7, 10, 12, 8, 5, 3, 8, 12, 15, 10, 7, 5, 4, 10, 14, 16, 12, 8,
      6, 4, 9, 13, 14, 11, 7, 5, 5, 11, 15, 13, 9, 6, 4, 8, 12, 14, 11, 8, 5>>

load_sample_data ==
    LET division == ListRepeat(<<"Primary">>, 30) \o ListRepeat(<<"Secondary">>, 30)
        class == ListRepeat(<<"Class 1">>, 10) \o ListRepeat(<<"Class 2">>, 10)
                 \o ListRepeat(<<"Class 3">>, 10) \o ListRepeat(<<"Class 4">>, 10)
                 \o ListRepeat(<<"Class 5">>, 10) \o ListRepeat(<<"Class 6">>, 10)
        grade == ListRepeat(GRADE_ORDER, 8) \o <<"A*", "A", "B", "C">>
    IN  [columns |-> Columns,
         rows |-> [i \in 1..Len(SampleCount) |->
                     [Division |-> division[i], Class |-> class[i],
                      Grade |-> grade[i], Count |-> SampleCount[i]]]]

\* pd.read_csv: the header and the data rows of the file.
read_csv(file) == [columns |-> file.columns, rows |-> file.rows]

\* pd.Categorical(values, categories=GRADE_ORDER): the code of a value is its
\* position in GRADE_ORDER counted from 0; a value outside it becomes NaN, code -1.
CategoricalCode(g) ==
    IF \E k \in 1..Len(GRADE_ORDER) : GRADE_ORDER[k] = g
    THEN (CHOOSE k \in 1..Len(GRADE_ORDER) : GRADE_ORDER[k] = g) - 1
    ELSE -1

\* sort_values('Grade'): ascending by code, NaN last.  Rows of equal grade
\* are kept in their order (no aggregate reads the order among them).
SortByGrade(rows) ==
    LET bucket(k) == SelectSeq(rows, LAMBDA r : r.Grade = k)
    IN  bucket(0) \o bucket(1) \o bucket(2) \o bucket(3) \o bucket(4)
        \o bucket(5) \o bucket(6) \o bucket(-1)

\* process_data(df) for a df that has a Grade column.
process_data(raw) ==
    LET coded == [i \in 1..Len(raw.rows) |->
                    [c \in raw.columns |->
                       IF c = "Grade" THEN CategoricalCode(raw.rows[i][c])
                       ELSE raw.rows[i][c]]]
    IN  [columns |-> raw.columns, rows |-> SortByGrade(coded)]

\* The table of a run with no file attached: process_data(load_sample_data()).
SampleTable == process_data(load_sample_data)

---------------------------------------------------------------------------
(* Aggregator *)

\* GroupBySum with .last() in place of .sum(): the count of the last row of
\* each grade.
GroupByLast(S) ==
    [g \in {GRADE_ORDER[S[i].Grade + 1] : i \in {j \in 1..Len(S) : S[j].Grade # -1}} |->
        LET code == CategoricalCode(g)
            group == SelectSeq(S, LAMBDA r : r.Grade = code)
        IN  group[Len(group)].Count]

\* df.groupby('Grade')['Count'].sum(): one entry per grade observed in S,
\* keyed by its label; rows whose grade is NaN belong to no group.
GroupBySum(S) ==
    [g \in {GRADE_ORDER[S[i].Grade + 1] : i \in {j \in 1..Len(S) : S[j].Grade # -1}} |->
        LET code == CategoricalCode(g)
        IN  SumCount(SelectSeq(S, LAMBDA r : r.Grade = code))]

\* Reindex that keeps the labels the series has and fills nothing in.
ReindexSparse(series, labels, fill) ==
    LET kept == SelectSeq(labels, LAMBDA l : l \in DOMAIN series)
    IN  [k \in 1..Len(kept) |-> series[kept[k]]]

\* series.reindex(labels, fill_value=fill)
Reindex(series, labels, fill) ==
    [k \in 1..Len(labels) |->
        IF labels[k] \in DOMAIN series THEN series[labels[k]] ELSE fill]

\* create_distribution_chart(df, title, chart_type): one trace, x the grade
\* labels and y the counts.
create_distribution_chart(S, title, type) ==
    LET grade_dist == Reindex(GroupBySum(S), GRADE_ORDER, 0)
    IN  [kind |-> type, title |-> title,
         traces |-> <<[name |-> "", x |-> GRADE_ORDER, y |-> grade_dist]>>]

\* StackedCell without the class in the mask: every class gets the rows of
\* the grade.
StackedCellAnyClass(S, class_name, grade) ==
    LET code == CategoricalCode(grade)
        class_data == SelectSeq(S, LAMBDA r : r.Grade = code)
    IN  IF class_data # <<>> THEN SumCount(class_data) ELSE 0

\* One cell of create_stacked_comparison: the rows of one class and one grade.
StackedCell(S, class_name, grade) ==
    LET code == CategoricalCode(grade)
        class_data == SelectSeq(S, LAMBDA r : r.Class = class_name /\ r.Grade = code)
    IN  IF class_data # <<>> THEN SumCount(class_data) ELSE 0

\* create_stacked_comparison(df, classes): one trace per grade, x the classes.
create_stacked_comparison(S, classes) ==
    [kind |-> "stack",
     title |-> <<"Grade Distribution Comparison Across Classes">>,
     traces |-> [g \in 1..Len(GRADE_ORDER) |->
                   [name |-> GRADE_ORDER[g], x |-> classes,
                    y |-> [i \in 1..Len(classes) |->
                             StackedCell(S, classes[i], GRADE_ORDER[g])]]]]

\* sorted(df['Class'].unique())
SortedClasses(S) ==
    SelectSeq(ClassOrder, LAMBDA c : \E i \in 1..Len(S) : S[i].Class = c)

---------------------------------------------------------------------------
(* Page sections *)

\* OfDivision that compares with 'secondary' in lower case.
OfDivisionLowerCase(S, division) ==
    LET label == IF division = "Secondary" THEN "secondary" ELSE division
    IN  SelectSeq(S, LAMBDA r : r.Division = label)

\* df[df['Division'] == division]
OfDivision(S, division) == SelectSeq(S, LAMBDA r : r.Division = division)

\* df[df['Class'] == class_name]
OfClass(S, class_name) == SelectSeq(S, LAMBDA r : r.Class = class_name)

\* df[df['Grade'] != 'U']: a categorical compares unequal to 'U' on every row
\* of another grade and on every row whose grade is NaN.
NotU(S) == SelectSeq(S, LAMBDA r : r.Grade # CategoricalCode("U"))

\* A number handed to st.metric.
Number(n) == [kind |-> "number", num |-> n, den |-> 1]

\* (num / den) * 100 for den # 0, kept as the exact quotient.
Rate(num, den) == [kind |-> "rate", num |-> 100 * num, den |-> den]

\* numpy's 0 / 0.
Nan == [kind |-> "nan", num |-> 0, den |-> 0]

\* numpy's x / 0 for x # 0.
Inf == [kind |-> "inf", num |-> 0, den |-> 0]

Metric(label, value) == [label |-> label, value |-> value]

\* The pass rate of the Overview: guarded against a total of 0.
OverviewPassRate(S) ==
    LET total_students == SumCount(S)
    IN  IF total_students > 0 THEN Rate(SumCount(NotU(S)), total_students)
        ELSE Number(0)

\* The pass rate of a class view: the division is not guarded.
DivisionPassRate(S) ==
    IF SumCount(S) # 0 THEN Rate(SumCount(NotU(S)), SumCount(S))
    ELSE IF SumCount(NotU(S)) = 0 THEN Nan ELSE Inf

Page(m, c, exc) == [metrics |-> m, charts |-> c, exc |-> exc]

\* The Overview section.  A column that is missing raises KeyError at the
\* first line that reads it; what was rendered before stays on the page.
Overview(t) ==
    LET S == t.rows
        total == Metric("Total Students", Number(SumCount(S)))
        combined ==
            [kind |-> "group", title |-> <<"Primary vs Secondary Grade Distribution">>,
             traces |-> [d \in 1..2 |->
                 LET division == <<"Primary", "Secondary">>[d]
                 IN  [name |-> division, x |-> GRADE_ORDER,
                      y |-> Reindex(GroupBySum(OfDivision(S, division)),
                                    GRADE_ORDER, 0)]]]
    IN  IF "Count" \notin t.columns THEN Page(<<>>, <<>>, "KeyError")
        ELSE IF "Division" \notin t.columns THEN Page(<<total>>, <<>>, "KeyError")
        ELSE Page(
            <<total,
              Metric("Primary Students", Number(SumCount(OfDivision(S, "Primary")))),
              Metric("Secondary Students", Number(SumCount(OfDivision(S, "Secondary")))),
              Metric("Pass Rate", OverviewPassRate(S))>>,
            <<create_distribution_chart(OfDivision(S, "Primary"),
                  <<"Primary School Grade Distribution">>, "bar"),
              create_distribution_chart(OfDivision(S, "Secondary"),
                  <<"Secondary School Grade Distribution">>, "bar"),
              combined>>,
            "none")

\* The Primary School and Secondary School sections, which differ in the
\* division only.  zero is what 0 / 0 does in this run.
ClassView(t, division, type, zero) ==
    LET S == OfDivision(t.rows, division)
        classes == SortedClasses(S)
        total == Metric(IF division = "Primary" THEN "Total Primary Students"
                       ELSE "Total Secondary Students", Number(SumCount(S)))
        pass_rate == DivisionPassRate(S)
        chart_type_value == IF type = "Bar Chart" THEN "bar" ELSE "pie"
    IN  IF "Division" \notin t.columns \/ "Class" \notin t.columns
           \/ "Count" \notin t.columns
        THEN Page(<<>>, <<>>, "KeyError")
        ELSE IF pass_rate.kind # "rate" /\ zero = "ZeroDivisionError"
        THEN Page(<<total>>, <<>>, "ZeroDivisionError")
        ELSE Page(
            <<total, Metric("Pass Rate", pass_rate),
              Metric("Number of Classes", Number(Len(classes)))>>,
            [i \in 1..Len(classes) |->
                create_distribution_chart(OfClass(S, classes[i]),
                    <<classes[i], "Grade Distribution">>, chart_type_value)]
            \o <<create_stacked_comparison(S, classes)>>,
            "none")

---------------------------------------------------------------------------
(* One run of the script *)

\* What 0 / 0 can do in a run on file f.  The Count column of a file with
\* data rows is int64, its sums are numpy integers and 0 / 0 is nan.  A file
\* with a header and no data rows gives an object column, whose sum may be
\* a Python int, and then 0 / 0 raises ZeroDivisionError.
ZeroOutcomes(f) ==
    IF f.present /\ f.rows = <<>> THEN {"nan", "ZeroDivisionError"} ELSE {"nan"}

\* The view section chosen by the radio.
Section(t, view, type, zero) ==
    IF view = "Overview" THEN Overview(t)
    ELSE IF view = "Primary School" THEN ClassView(t, "Primary", type, zero)
    ELSE ClassView(t, "Secondary", type, zero)

Views == {"Overview", "Primary School", "Secondary School"}
ChartTypes == {"Bar Chart", "Pie Chart"}

\* The view sections of the runs with no file attached.  The sample table
\* has rows of both divisions, so no 0 / 0 occurs in them.
SamplePage == [v \in Views, c \in ChartTypes |-> Section(SampleTable, v, c, "nan")]

\* The script from the upload branch to the end of the view section, with
\* the widgets at f, view and type.
Run(f, view, type, zero) ==
    IF f.present /\ "Grade" \notin f.columns
    THEN \* process_data raises KeyError: the run ends before any message
         /\ df' = NoTable
         /\ load_exc' = "KeyError"
         /\ sidebar' = "none"
         /\ metrics' = <<>>
         /\ charts' = <<>>
         /\ view_exc' = "none"
    ELSE \E t \in {IF f.present THEN process_data(read_csv(f)) ELSE SampleTable} :
         \E page \in {IF f.present THEN Section(t, view, type, zero)
                       ELSE SamplePage[view, type]} :
             /\ df' = t
             /\ load_exc' = "none"
             /\ sidebar' = IF f.present THEN "success" ELSE "info"
             /\ metrics' = page.metrics
             /\ charts' = page.charts
             /\ view_exc' = page.exc

\* The first run: no file attached, the radios at their first option.
Init ==
    LET t == SampleTable
        page == SamplePage["Overview", "Bar Chart"]
    IN  /\ uploaded_file = NoFile
        /\ view_option = "Overview"
        /\ chart_type = "Bar Chart"
        /\ df = t
        /\ load_exc = "none"
        /\ sidebar = "info"
        /\ metrics = page.metrics
        /\ charts = page.charts
        /\ view_exc = "none"

\* The user picks another view.  The chart radio exists in the class views
\* only and starts at its first option when it is created.
SelectView(v) ==
    /\ v # view_option
    /\ view_option' = v
    /\ chart_type' = IF v = "Overview" THEN "Bar Chart" ELSE chart_type
    /\ UNCHANGED uploaded_file
    /\ \E zero \in ZeroOutcomes(uploaded_file) :
           Run(uploaded_file, v, chart_type', zero)

\* The user picks another chart type in a class view.
SelectChart(c) ==
    /\ view_option # "Overview"
    /\ load_exc = "none" /\ view_exc = "none"
    /\ c # chart_type
    /\ chart_type' = c
    /\ UNCHANGED <<uploaded_file, view_option>>
    /\ \E zero \in ZeroOutcomes(uploaded_file) :
           Run(uploaded_file, view_option, c, zero)

\* A run with file f attached.
Upload(f) ==
    /\ uploaded_file' = f
    /\ UNCHANGED <<view_option, chart_type>>
    /\ \E zero \in ZeroOutcomes(f) : Run(f, view_option, chart_type, zero)

\* The user attaches a CSV file that has header h and no data rows.
UploadFile(h) ==
    /\ ~uploaded_file.present
    /\ Upload([present |-> TRUE, columns |-> h, rows |-> <<>>])

\* The user uploads the attached file again with one more data row.
AppendRow(r) ==
    /\ uploaded_file.present
    /\ Len(uploaded_file.rows) < RowLimit(uploaded_file.columns)
    /\ Upload([uploaded_file EXCEPT !.rows = Append(@, r)])

\* The user uploads the attached file again with rows i and j exchanged.
ReorderRows(i, j) ==
    /\ uploaded_file.present
    /\ uploaded_file.rows[i] # uploaded_file.rows[j]
    /\ Upload([uploaded_file EXCEPT !.rows = [@ EXCEPT ![i] = uploaded_file.rows[j],
                                                       ![j] = uploaded_file.rows[i]]])

\* The user removes the attached file.
RemoveFile ==
    /\ uploaded_file.present
    /\ Upload(NoFile)

Next ==
    \/ \E v \in Views : SelectView(v)
    \/ \E c \in ChartTypes : SelectChart(c)
    \/ \E h \in Headers : UploadFile(h)
    \/ \E r \in RowsFor(uploaded_file.columns) : AppendRow(r)
    \/ \E i \in 1..Len(uploaded_file.rows) :
          \E j \in (i + 1)..Len(uploaded_file.rows) : ReorderRows(i, j)
    \/ RemoveFile

Spec == Init /\ [][Next]_vars

---------------------------------------------------------------------------
(* Properties *)

\* The run reached the end of the view section.
Rendered == load_exc = "none" /\ view_exc = "none"

\* The run built a table that has the four columns.
Loaded == load_exc = "none" /\ Columns \subseteq df.columns

\* The rows the run read, as they stand in the source.
RawRows ==
    IF uploaded_file.present THEN uploaded_file.rows ELSE load_sample_data.rows

\* The sum of Count over the rows of S at the positions I.
RECURSIVE SumOfCounts(_, _)
SumOfCounts(S, I) ==
    IF I = {} THEN 0
    ELSE LET i == CHOOSE j \in I : TRUE
         IN  S[i].Count + SumOfCounts(S, I \ {i})

\* The selections of a table: every row, the rows of a division, the rows
\* of a class.
Selections ==
    {[by |-> "all", val |-> ""]}
    \cup {[by |-> "division", val |-> d] : d \in {"Primary", "Secondary", "Tertiary"}}
    \cup {[by |-> "class", val |-> c] : c \in {"Class 1", "Class 2", "Class 3"}}

Matches(r, sel) ==
    \/ sel.by = "all"
    \/ sel.by = "division" /\ r.Division = sel.val
    \/ sel.by = "class" /\ r.Class = sel.val

Select(S, sel) == SelectSeq(S, LAMBDA r : Matches(r, sel))

\* The counts create_distribution_chart puts on the chart of rows S.
DistributionOf(S) == create_distribution_chart(S, <<>>, "bar").traces[1].y

\* The division a class view shows.
ViewDivision == IF view_option = "Primary School" THEN "Primary" ELSE "Secondary"

\* The sum of Count over the source rows of division d, class c and grade g.
RawSum(d, c, g) ==
    SumOfCounts(RawRows, {i \in 1..Len(RawRows) :
        /\ RawRows[i].Division = d
        /\ c # "" => RawRows[i].Class = c
        /\ RawRows[i].Grade = g})

\* The distribution of selection sel has the seven grades in order and, for
\* each, the sum of the counts of the source rows of that grade.
DistributionRight(sel) ==
    \A trace \in {create_distribution_chart(Select(df.rows, sel), <<>>, "bar").traces[1]} :
        /\ trace.x = <<"A*", "A", "B", "C", "D", "E", "U">>
        /\ Len(trace.y) = 7
        /\ \A k \in 1..7 :
              trace.y[k] = SumOfCounts(RawRows, {i \in 1..Len(RawRows) :
                               /\ Matches(RawRows[i], sel)
                               /\ RawRows[i].Grade = trace.x[k]})

\* The distribution charts on the page show the sums of their rows.
RenderedDistributionsRight ==
    IF view_option = "Overview"
    THEN \A d \in 1..2 :
            /\ Len(charts[d].traces[1].y) = 7
            /\ \A k \in 1..7 :
                  charts[d].traces[1].y[k] =
                      RawSum(<<"Primary", "Secondary">>[d], "", GRADE_ORDER[k])
    ELSE \A n \in 1..(Len(charts) - 1) :
            /\ Len(charts[n].traces[1].y) = 7
            /\ \A k \in 1..7 :
                  charts[n].traces[1].y[k] =
                      RawSum(ViewDivision, charts[n].title[1], GRADE_ORDER[k])

\* C1: the distribution of every selection of the table (all rows, a
\* division, a class) has exactly 7 entries in the order A*, A, B, C, D, E, U,
\* and the entry of a grade is the sum of Count over the selected rows of
\* that grade: rows of one class and grade are summed, a grade without rows
\* gives 0.  The same holds of every distribution chart on the page.
C1_Distribution ==
    Loaded =>
        /\ \A sel \in Selections : DistributionRight(sel)
        /\ Rendered => RenderedDistributionsRight

\* C1's case: the Primary School view of a file whose two rows are the same
\* class and grade shows their sum for that grade and 0 for the others.
C1_Witness ==
    /\ uploaded_file.present /\ uploaded_file.columns = Columns
    /\ view_option = "Primary School" /\ Rendered
    /\ Len(uploaded_file.rows) = 2
    /\ uploaded_file.rows[1].Division = "Primary"
    /\ uploaded_file.rows[2].Division = "Primary"
    /\ uploaded_file.rows[1].Class = uploaded_file.rows[2].Class
    /\ uploaded_file.rows[1].Grade = "A" /\ uploaded_file.rows[2].Grade = "A"
    /\ uploaded_file.rows[1].Count = 1 /\ uploaded_file.rows[2].Count = 2
    /\ charts[1].traces[1].y = <<0, 3, 0, 0, 0, 0, 0>>

\* Lists of class names: up to two of the classes of the files, in either
\* order and repeated, and a class no file has.
ClassLists ==
    UNION {[1..n -> {"Class 1", "Class 2"}] : n \in 0..2} \cup {<<"Class 3">>, <<"Class 3", "Class 1">>}

\* The comparison of rows S for the list classes is the grade by class
\* matrix of the distributions of the classes.
MatrixRight(S, classes) ==
    \A fig \in {create_stacked_comparison(S, classes)} :
        /\ Len(fig.traces) = 7
        /\ \A g \in 1..7 :
              /\ fig.traces[g].name = GRADE_ORDER[g]
              /\ fig.traces[g].x = classes
              /\ Len(fig.traces[g].y) = Len(classes)
        /\ \A i \in 1..Len(classes) :
              \A y \in {DistributionOf(OfClass(S, classes[i]))} :
                  \A g \in 1..7 : fig.traces[g].y[i] = y[g]

\* C2: for every list of class names, the cell of create_stacked_comparison
\* for grade g and position i is entry g of the distribution of the rows of
\* class classes[i]; a class without rows of g gives 0 and the cells of a
\* grade follow the order of the list.  On the page, the stacked chart of a
\* class view agrees cell by cell with the class charts above it.
C2_Matrix ==
    Loaded =>
        /\ \A S \in {df.rows} : \A classes \in ClassLists : MatrixRight(S, classes)
        /\ (Rendered /\ view_option # "Overview") =>
              \A fig \in {charts[Len(charts)]} :
                  /\ Len(fig.traces[1].x) = Len(charts) - 1
                  /\ \A i \in 1..(Len(charts) - 1) :
                        /\ fig.traces[1].x[i] = charts[i].title[1]
                        /\ \A g \in 1..7 :
                              fig.traces[g].y[i] = charts[i].traces[1].y[g]

\* C2's case: a class view of two classes, where the first class has rows of
\* grade A and the second has none, shows the stacked cells <<count, 0>>.
C2_Witness ==
    /\ uploaded_file.present /\ Rendered /\ view_option = "Secondary School"
    /\ Len(charts) = 3
    /\ charts[3].kind = "stack"
    /\ charts[3].traces[1].x = <<"Class 1", "Class 2">>
    /\ charts[3].traces[2].y = <<2, 0>>
    /\ charts[3].traces[7].y = <<0, 1>>

\* Entry by entry, the Primary and the Secondary distribution add up to the
\* distribution of all rows.
DivisionsAddUp ==
    \A p \in {DistributionOf(OfDivision(df.rows, "Primary"))} :
    \A q \in {DistributionOf(OfDivision(df.rows, "Secondary"))} :
    \A a \in {DistributionOf(df.rows)} :
        /\ Len(p) = 7 /\ Len(q) = 7 /\ Len(a) = 7
        /\ \A k \in 1..7 : p[k] + q[k] = a[k]

\* On the Overview, Total Students is Primary Students plus Secondary Students.
TotalsAddUp ==
    (view_option = "Overview" /\ Rendered) =>
        /\ metrics[1].label = "Total Students"
        /\ metrics[2].label = "Primary Students"
        /\ metrics[3].label = "Secondary Students"
        /\ metrics[1].value.num = metrics[2].value.num + metrics[3].value.num

\* Every row of the table is of division Primary or Secondary.
OnlyPrimaryAndSecondary ==
    \A i \in 1..Len(df.rows) : df.rows[i].Division \in {"Primary", "Secondary"}

\* C3 as stated: for every table the loader accepts, the Primary and the
\* Secondary distribution add up entry by entry to the distribution of all
\* rows, and Total Students is Primary Students plus Secondary Students.
C3_DivisionsPartitionEveryTable ==
    Loaded => (DivisionsAddUp /\ TotalsAddUp)

\* C3 as amended: the same, for every loaded table all of whose rows are of
\* division Primary or Secondary.
C3_DivisionsPartition ==
    (Loaded /\ OnlyPrimaryAndSecondary) => (DivisionsAddUp /\ TotalsAddUp)

\* C3's case: the Overview of an uploaded file with a Primary and a
\* Secondary row and no other division shows 3 = 1 + 2.
C3_Witness ==
    /\ uploaded_file.present /\ Loaded /\ Rendered /\ view_option = "Overview"
    /\ OnlyPrimaryAndSecondary
    /\ metrics[1].value.num = 3
    /\ metrics[2].value.num = 1
    /\ metrics[3].value.num = 2

\* File g holds the rows of file f in another order.
Reordered(f, g) ==
    /\ f.present /\ g.present
    /\ f.columns = g.columns
    /\ Len(f.rows) = Len(g.rows)
    /\ f.rows # g.rows
    /\ \A r \in {f.rows[i] : i \in 1..Len(f.rows)} :
          Cardinality({i \in 1..Len(f.rows) : f.rows[i] = r})
              = Cardinality({i \in 1..Len(g.rows) : g.rows[i] = r})

\* C9: a run on the same rows in another order, with the same view and
\* chart type, puts the same metrics and charts on the page, and the
\* distribution of every selection and the comparison matrix (taken over
\* the list of all classes, whose cells are those of every other list) are
\* the same for the two tables.
C9_RowOrderIrrelevant ==
    [][(/\ view_option' = view_option
        /\ chart_type' = chart_type
        /\ Reordered(uploaded_file, uploaded_file'))
       => /\ load_exc' = load_exc /\ view_exc' = view_exc
          /\ metrics' = metrics
          /\ charts' = charts
          /\ (load_exc' = "none" /\ Columns \subseteq uploaded_file.columns) =>
                /\ \A sel \in Selections :
                      DistributionOf(Select(df'.rows, sel))
                          = DistributionOf(Select(df.rows, sel))
                /\ \A classes \in {<<"Class 1", "Class 2", "Class 3">>} :
                      create_stacked_comparison(df'.rows, classes)
                          = create_stacked_comparison(df.rows, classes)]_vars

\* C9's case: a file whose rows stand against the grade order, the failing
\* grade first, and of one class, with different counts; the run sorted the
\* table and the class chart shows each count under its grade.
C9_Witness ==
    /\ uploaded_file.present /\ Loaded /\ Rendered
    /\ view_option = "Primary School"
    /\ Len(uploaded_file.rows) = 2
    /\ uploaded_file.rows[1].Grade = "U" /\ uploaded_file.rows[1].Count = 2
    /\ uploaded_file.rows[2].Grade = "A" /\ uploaded_file.rows[2].Count = 1
    /\ uploaded_file.rows[1].Class = uploaded_file.rows[2].Class
    /\ df.rows[1].Grade = 1 /\ df.rows[2].Grade = 6
    /\ Len(charts) = 2
    /\ charts[1].traces[1].y = <<0, 1, 0, 0, 0, 0, 2>>

\* The grades of the enumeration.
Grades == {GRADE_ORDER[k] : k \in 1..Len(GRADE_ORDER)}

\* File f has a row whose Grade is outside the enumeration.
HasUnknownGrade(f) ==
    /\ "Grade" \in f.columns
    /\ \E i \in 1..Len(f.rows) : f.rows[i].Grade \notin Grades

\* File f breaks the input contract: a column is missing, a grade is
\* outside the enumeration, or a count is negative.
Violates(f) ==
    /\ f.present
    /\ \/ ~(Columns \subseteq f.columns)
       \/ HasUnknownGrade(f)
       \/ \E i \in 1..Len(f.rows) : f.rows[i].Count < 0

\* C4: a run on a file without the Count column fails in the load step with
\* FormatError, a run on a file with a grade outside the enumeration fails
\* in the load step with ValueError, and neither load returns a table.
C4_LoadRejects ==
    /\ (uploaded_file.present /\ "Count" \notin uploaded_file.columns) =>
          (load_exc = "FormatError" /\ df = NoTable)
    /\ (uploaded_file.present /\ "Count" \in uploaded_file.columns
          /\ HasUnknownGrade(uploaded_file)) =>
          (load_exc = "ValueError" /\ df = NoTable)

\* C5: a run on a file that breaks the input contract, after a run that
\* loaded a table meeting it, raises nothing, shows an error message, and
\* renders the selected view from the table of the run before.
C5_UploadErrorRecovered ==
    [][(/\ ~Violates(uploaded_file)
        /\ load_exc = "none"
        /\ Violates(uploaded_file'))
       => /\ load_exc' = "none" /\ view_exc' = "none"
          /\ sidebar' = "error"
          /\ df' = df
          /\ \A page \in {Section(df, view_option', chart_type', "nan")} :
                metrics' = page.metrics /\ charts' = page.charts]_vars

\* The rows the pass rate of the selected view is computed over.
ViewRows ==
    IF view_option = "Overview" THEN df.rows ELSE OfDivision(df.rows, ViewDivision)

\* A displayed value of 0.
IsZero(v) == v.kind \in {"number", "rate"} /\ v.num = 0 /\ v.den # 0

\* C6: in each view, when the counts of the rows the pass rate is computed
\* over add up to 0, the run raises nothing and the Pass Rate shown is 0.
C6_ZeroTotalGivesZeroRate ==
    (Loaded /\ SumCount(ViewRows) = 0) =>
        /\ view_exc = "none"
        /\ \E i \in 1..Len(metrics) :
              metrics[i].label = "Pass Rate" /\ IsZero(metrics[i].value)

\* C7: every row of the table the load step returned has a grade of rank
\* 0 to 6 in the fixed order; none has a missing grade.
C7_EveryGradeRanked ==
    load_exc = "none" =>
        \A i \in 1..Len(df.rows) : df.rows[i].Grade \in 0..6

\* C8: the sample table has at most one row for each division, class and
\* grade.
C8_SampleWellFormed ==
    (~uploaded_file.present) =>
        \A i \in 1..Len(df.rows) : \A j \in 1..Len(df.rows) :
            (/\ df.rows[i].Division = df.rows[j].Division
             /\ df.rows[i].Class = df.rows[j].Class
             /\ df.rows[i].Grade = df.rows[j].Grade) => i = j

\* The sum of entries from..to of a sequence of numbers.
RECURSIVE SumEntries(_, _, _)
SumEntries(y, from, to) ==
    IF from > to THEN 0 ELSE y[from] + SumEntries(y, from + 1, to)

\* C10: on the Overview of a loaded table with counts of 0 or more and a
\* total above 0, the Pass Rate is 100 times the sum of the distribution
\* entries of A* to E over the sum of all seven entries of the distribution
\* of the whole table.
C10_PassRateFromDistribution ==
    (/\ Loaded /\ Rendered /\ view_option = "Overview"
     /\ \A i \in 1..Len(df.rows) : df.rows[i].Count >= 0
     /\ SumCount(df.rows) > 0)
    => \A y \in {DistributionOf(df.rows)} :
       \A rate \in {metrics[4].value} :
          /\ metrics[4].label = "Pass Rate"
          /\ rate.kind = "rate"
          /\ SumEntries(y, 1, 7) # 0
          /\ rate.num * SumEntries(y, 1, 7) = 100 * SumEntries(y, 1, 6) * rate.den

====
